---- MODULE Spec2Model ----
(***************************************************************************)
(* Model of the Spatial Transformer Network notebook                       *)
(* (Spatial Transformer Networks/spatial_transformer_network_guide.ipynb): *)
(* class Net (its constructor, stn and forward) and the "2.1 Test Forward  *)
(* Pass" cell.                                                             *)
(*                                                                         *)
(* Tensors of the network are modelled by their shape and by the storage   *)
(* buffer they live in (so that aliasing by view and in-place ReLU can be  *)
(* seen); the output of the affine regressor is modelled by value.  The    *)
(* grid generator and the bilinear sampler are modelled by value, in exact *)
(* rational arithmetic, on small images (specification SpecSTN).           *)
(***************************************************************************)
EXTENDS Integers, Sequences, FiniteSets, TLC

VARIABLES
    pc,        \* position in the notebook / in stn / in forward
    net,       \* the constructed Net: constructor arguments and fc_loc[2]
    entry,     \* the method the caller invoked: "stn" or "forward"
    inp,       \* the caller's input tensor
    x,         \* the local variable x of stn / forward
    xs,        \* the local variable xs of stn
    hidden,    \* the activations entering fc_loc[2] (rows of 32 values)
    theta,     \* the local variable theta of stn (tensor)
    thetaVal,  \* the values of theta: the 6 outputs per row, then (rows,2,3)
    grid,      \* the local variable grid of stn
    out,       \* the value returned to the caller
    heap,      \* storage buffers: heap[b] = number of in-place writes to b
    trace,     \* the stages run so far in this call, with their operands
    err,       \* the place an exception was raised, "" if none
    img,       \* SpecSTN: the image given to the sampler, img[c][i][j]
    th,        \* SpecSTN: the 2x3 affine matrix, entries are rationals
    sgrid,     \* SpecSTN: the sampling grid, sgrid[i][j] = <<x', y'>>
    simg       \* SpecSTN: the sampled image, simg[c][i][j], rationals

vars == <<pc, net, entry, inp, x, xs, hidden, theta, thetaVal, grid, out,
          heap, trace, err, img, th, sgrid, simg>>


(***************************************************************************)
(* Bounds of the model.                                                    *)
(***************************************************************************)
MaxBatch == 5           \* batch sizes 1..MaxBatch
MaxSeed == 1            \* seeds of the default (random) initialisation
MaxHiddenSel == 2       \* hidden-activation patterns 0..MaxHiddenSel
ChannelChoices == {1, 3}
SizeChoices == {8, 30, 32, 64}

(***************************************************************************)
(* Program constants.                                                      *)
(***************************************************************************)
N_CHANNELS == 3
DIM_HEIGHT == 32
DIM_WIDTH == 32
N_CLASSES == 10
TestBatch == 5
LocHidden == 32         \* fc_loc[0].out_features = fc_loc[2].in_features
ThetaSize == 6          \* fc_loc[2].out_features = 3 * 2
FlatFeatures == 2048    \* fc1[0].in_features and view(-1, 2048)

NoTensor == [buf |-> 0, shape |-> <<>>]

RECURSIVE Prod(_)
Prod(s) == IF s = <<>> THEN 1 ELSE Head(s) * Prod(Tail(s))

Numel(t) == Prod(t.shape)

(***************************************************************************)
(* Layers.  A layer is a record; kind is one of conv, pool, relu, dropout, *)
(* linear.                                                                 *)
(***************************************************************************)
Conv2d(cin, cout, k, s, p) ==
    [kind |-> "conv", cin |-> cin, cout |-> cout, k |-> k, s |-> s, p |-> p,
     inplace |-> FALSE]
MaxPool2d(k, s) ==
    [kind |-> "pool", cin |-> 0, cout |-> 0, k |-> k, s |-> s, p |-> 0,
     inplace |-> FALSE]
ReLU(inplace) ==
    [kind |-> "relu", cin |-> 0, cout |-> 0, k |-> 0, s |-> 0, p |-> 0,
     inplace |-> inplace]
Dropout2d ==
    [kind |-> "dropout", cin |-> 0, cout |-> 0, k |-> 0, s |-> 0, p |-> 0,
     inplace |-> FALSE]
Linear(cin, cout) ==
    [kind |-> "linear", cin |-> cin, cout |-> cout, k |-> 0, s |-> 0, p |-> 0,
     inplace |-> FALSE]

\* output extent of a convolution / pooling window along one axis
ConvOut(n, k, s, p) == ((n + 2 * p - k) \div s) + 1
PoolOut(n, k, s) == ((n - k) \div s) + 1

\* the shape a layer produces, <<>> when the layer raises
LayerShape(l, sh) ==
    CASE l.kind = "conv" ->
           IF Len(sh) = 4 /\ sh[2] = l.cin
              /\ sh[3] + 2 * l.p >= l.k /\ sh[4] + 2 * l.p >= l.k
           THEN <<sh[1], l.cout, ConvOut(sh[3], l.k, l.s, l.p),
                  ConvOut(sh[4], l.k, l.s, l.p)>>
           ELSE <<>>
      [] l.kind = "pool" ->
           IF Len(sh) = 4 /\ sh[3] >= l.k /\ sh[4] >= l.k
           THEN <<sh[1], sh[2], PoolOut(sh[3], l.k, l.s), PoolOut(sh[4], l.k, l.s)>>
           ELSE <<>>
      [] l.kind = "linear" ->
           IF Len(sh) >= 1 /\ sh[Len(sh)] = l.cin
           THEN [sh EXCEPT ![Len(sh)] = l.cout]
           ELSE <<>>
      [] OTHER -> sh

\* one layer applied to tensor t under heap h: the result tensor, the heap
\* afterwards and whether the layer succeeded.  An in-place ReLU writes the
\* buffer of its operand and returns the operand; every other layer
\* allocates a fresh buffer for its result.
ApplyLayer(l, t, h) ==
    LET sh == LayerShape(l, t.shape) IN
    IF sh = <<>> THEN [t |-> NoTensor, heap |-> h, ok |-> FALSE]
    ELSE IF l.kind = "relu" /\ l.inplace
    THEN [t |-> t, heap |-> [h EXCEPT ![t.buf] = @ + 1], ok |-> TRUE]
    ELSE [t |-> [buf |-> Len(h) + 1, shape |-> sh],
          heap |-> Append(h, 0), ok |-> TRUE]

\* nn.Sequential: the layers applied in order
RECURSIVE Sequential(_, _, _)
Sequential(layers, t, h) ==
    IF layers = <<>> THEN [t |-> t, heap |-> h, ok |-> TRUE]
    ELSE LET r == ApplyLayer(Head(layers), t, h) IN
         IF r.ok THEN Sequential(Tail(layers), r.t, r.heap) ELSE r

\* Tensor.view(-1, k): same buffer, the leading dimension inferred
ViewShape(t, k) ==
    IF k > 0 /\ Numel(t) > 0 /\ Numel(t) % k = 0
    THEN <<Numel(t) \div k, k>> ELSE <<>>

(***************************************************************************)
(* Values of the affine regressor's last layer.                            *)
(***************************************************************************)
\* the default initialisation of an nn.Linear weight (out x in):
\* values drawn by the framework, here small integers picked by a seed
LinearInitWeight(o, i, seed) ==
    [r \in 1..o |-> [c \in 1..i |-> ((r + c + seed) % 3) - 1]]

\* mutant of Fill: the fill is lost and the default initialisation stays
FillNothing(w, v) == w

\* Tensor.fill_(v) on a matrix
Fill(w, v) == [r \in 1..Len(w) |-> [c \in 1..Len(w[r]) |-> v]]

\* torch.FloatTensor([1, 0, 0, 0, 1, 0])
IdentityBias == <<1, 0, 0, 0, 1, 0>>

RECURSIVE Dot(_, _)
Dot(a, b) ==
    IF a = <<>> THEN 0 ELSE Head(a) * Head(b) + Dot(Tail(a), Tail(b))

\* nn.Linear applied to one row v: weight . v + bias
LinearApply(w, b, v) == [i \in 1..Len(b) |-> Dot(w[i], v) + b[i]]

\* the contiguous storage of a (rows, k) tensor, row after row
Flatten(m, k) ==
    [f \in 1..(Len(m) * k) |-> m[((f - 1) \div k) + 1][((f - 1) % k) + 1]]

\* mutant of View23: the six values laid out column by column
View23ColumnMajor(m) ==
    [n \in 1..Len(m) |-> [r \in 1..2 |-> [c \in 1..3 |-> m[n][(c - 1) * 2 + r]]]]

\* Tensor.view(-1, 2, 3) of a contiguous (rows, 6) tensor
View23(m) ==
    LET flat == Flatten(m, ThetaSize) IN
    [n \in 1..(Len(flat) \div ThetaSize) |->
        [r \in 1..2 |-> [c \in 1..3 |-> flat[((n - 1) * 2 + (r - 1)) * 3 + c]]]]

\* activations leaving fc_loc[1] (a ReLU, so none is negative): one row of
\* LocHidden values per row of xs, picked by sel
HiddenRow(sel, r) ==
    [j \in 1..LocHidden |-> IF sel = 0 THEN 0 ELSE (sel * j + r) % 3]

(***************************************************************************)
(* class Net                                                               *)
(***************************************************************************)
\* in_features of fc_loc[0], evaluated left to right as Python does
InFeatures(n) ==
    (((n.input_height \div 4) * n.input_width) \div 4) * n.input_channels

\* mutant of Localization: the second convolution with stride 1
LocalizationStride1(n) ==
    << Conv2d(n.input_channels, 8, 7, 1, 3), MaxPool2d(2, 2), ReLU(TRUE),
       Conv2d(8, 12, 5, 1, 2), MaxPool2d(2, 2), ReLU(TRUE) >>

\* mutant of Localization: an in-place ReLU applied to the input itself
LocalizationReluFirst(n) ==
    << ReLU(TRUE), Conv2d(n.input_channels, 8, 7, 1, 3), MaxPool2d(2, 2),
       Conv2d(8, 12, 5, 2, 2), MaxPool2d(2, 2), ReLU(TRUE) >>

\* self.localization
Localization(n) ==
    << Conv2d(n.input_channels, 8, 7, 1, 3), MaxPool2d(2, 2), ReLU(TRUE),
       Conv2d(8, 12, 5, 2, 2), MaxPool2d(2, 2), ReLU(TRUE) >>

\* fc_loc[0] and fc_loc[1]; fc_loc[2] is applied by value (FcLoc2)
FcLocHead(n) == << Linear(InFeatures(n), LocHidden), ReLU(TRUE) >>
FcLocTail == << Linear(LocHidden, ThetaSize) >>

Conv1(n) ==
    << Conv2d(n.input_channels, 16, 5, 1, 2), MaxPool2d(2, 2), ReLU(TRUE) >>
Conv2 ==
    << Conv2d(16, 32, 5, 1, 2), MaxPool2d(2, 2), Dropout2d, ReLU(TRUE) >>
Fc1 == << Linear(FlatFeatures, 50), Dropout2d, ReLU(TRUE) >>
FcOut(n) == << Linear(50, n.num_classes) >>

NoNet ==
    [input_channels |-> 0, input_height |-> 0, input_width |-> 0,
     num_classes |-> 0, fc_loc2_weight |-> <<>>, fc_loc2_bias |-> <<>>]

\* Net.__init__: the layers are built with their default initialisation,
\* then the last layer of fc_loc is set to produce the identity transform
NetInit(c, h, w, k, seed) ==
    [input_channels |-> c, input_height |-> h, input_width |-> w,
     num_classes |-> k,
     fc_loc2_weight |-> Fill(LinearInitWeight(ThetaSize, LocHidden, seed), 0),
     fc_loc2_bias |-> IdentityBias]

Stage(name, args, o, size) ==
    [stage |-> name, args |-> args, out |-> o, size |-> size]

(***************************************************************************)
(* The framework calls of stn, by shape.                                   *)
(***************************************************************************)
\* F.affine_grid(theta, size): theta must be (N, 2, 3) for size (N, C, H, W);
\* the grid is (N, H, W, 2).  <<>> when the call raises.
AffineGridShape(thetaShape, size) ==
    IF Len(size) = 4 /\ thetaShape = <<size[1], 2, 3>>
    THEN <<size[1], size[3], size[4], 2>> ELSE <<>>

\* F.grid_sample(input, grid): input (N, C, H_in, W_in), grid (N, H, W, 2);
\* the output is (N, C, H, W).  <<>> when the call raises.
GridSampleShape(inShape, gridShape) ==
    IF Len(inShape) = 4 /\ Len(gridShape) = 4
       /\ gridShape[1] = inShape[1] /\ gridShape[4] = 2
    THEN <<inShape[1], inShape[2], gridShape[2], gridShape[3]>> ELSE <<>>

\* the operands the code passes to the two calls, and to the backbone
GridSize == x.shape         \* F.affine_grid(theta, x.size())
SampleSource == x           \* F.grid_sample(x, grid)
BackboneInputRaw == inp     \* mutant: the backbone fed the untransformed input
BackboneInput == x          \* x = self.stn(x); x = self.conv1(x)

Raise(where) ==
    /\ pc' = "error"
    /\ err' = where
    /\ UNCHANGED <<img, th, sgrid, simg, net, entry, inp, x, xs, hidden,
                   theta, thetaVal, grid, out, heap, trace>>

(***************************************************************************)
(* Actions of the network.                                                 *)
(***************************************************************************)
\* net = Net(input_channels, input_height, input_width, num_classes)
Construct ==
    /\ pc = "new"
    /\ \E c \in ChannelChoices, h \in SizeChoices, w \in SizeChoices,
          seed \in 0..MaxSeed :
          net' = NetInit(c, h, w, N_CLASSES, seed)
    /\ pc' = "idle"
    /\ UNCHANGED <<img, th, sgrid, simg, entry, inp, x, xs, hidden, theta,
                   thetaVal, grid, out, heap, trace, err>>

\* the caller builds a batch x of n images and calls net.stn(x) or net(x);
\* the images have the size the net was built for, or a square size s
Call ==
    /\ pc \in {"idle", "done", "error"}
    /\ \E e \in {"stn", "forward"}, n \in 1..MaxBatch,
          hw \in {<<net.input_height, net.input_width>>}
                    \cup {<<s, s>> : s \in SizeChoices} :
          /\ entry' = e
          /\ inp' = [buf |-> 1, shape |-> <<n, net.input_channels, hw[1], hw[2]>>]
    /\ x' = inp'
    /\ heap' = <<0>>
    /\ trace' = <<>>
    /\ err' = ""
    /\ xs' = NoTensor /\ theta' = NoTensor /\ grid' = NoTensor /\ out' = NoTensor
    /\ hidden' = <<>> /\ thetaVal' = <<>>
    /\ pc' = "localization"
    /\ UNCHANGED <<img, th, sgrid, simg, net>>

\* xs = self.localization(x)
StnLocalization ==
    /\ pc = "localization"
    /\ LET r == Sequential(Localization(net), x, heap) IN
       IF r.ok
       THEN /\ xs' = r.t
            /\ heap' = r.heap
            /\ trace' = Append(trace, Stage("localization", <<x.buf>>, r.t.buf, <<>>))
            /\ pc' = "view_xs"
            /\ UNCHANGED <<img, th, sgrid, simg, net, entry, inp, x, hidden,
                           theta, thetaVal, grid, out, err>>
       ELSE Raise("localization")

\* xs = xs.view(-1, input_height//4 * input_width//4 * input_channels)
StnViewXs ==
    /\ pc = "view_xs"
    /\ LET sh == ViewShape(xs, InFeatures(net)) IN
       IF sh # <<>>
       THEN /\ xs' = [buf |-> xs.buf, shape |-> sh]
            /\ trace' = Append(trace, Stage("view_xs", <<xs.buf>>, xs.buf, sh))
            /\ pc' = "fc_loc"
            /\ UNCHANGED <<img, th, sgrid, simg, net, entry, inp, x, hidden,
                           theta, thetaVal, grid, out, heap, err>>
       ELSE Raise("view_xs")

\* theta = self.fc_loc(xs): the activations reaching fc_loc[2] are any
\* non-negative values; fc_loc[2] is applied to them by value
StnFcLoc ==
    /\ pc = "fc_loc"
    /\ LET r == Sequential(FcLocHead(net) \o FcLocTail, xs, heap) IN
       IF r.ok
       THEN /\ \E sel \in 0..MaxHiddenSel :
                 hidden' = [k \in 1..xs.shape[1] |-> HiddenRow(sel, k)]
            /\ thetaVal' = [k \in 1..xs.shape[1] |->
                              LinearApply(net.fc_loc2_weight, net.fc_loc2_bias,
                                          hidden'[k])]
            /\ theta' = r.t
            /\ heap' = r.heap
            /\ trace' = Append(trace, Stage("fc_loc", <<xs.buf>>, r.t.buf, <<>>))
            /\ pc' = "view_theta"
            /\ UNCHANGED <<img, th, sgrid, simg, net, entry, inp, x, xs, grid,
                           out, err>>
       ELSE Raise("fc_loc")

\* theta = theta.view(-1, 2, 3)
StnViewTheta ==
    /\ pc = "view_theta"
    /\ theta' = [buf |-> theta.buf, shape |-> <<Numel(theta) \div ThetaSize, 2, 3>>]
    /\ thetaVal' = View23(thetaVal)
    /\ trace' = Append(trace, Stage("view_theta", <<theta.buf>>, theta.buf,
                                    theta'.shape))
    /\ pc' = "affine_grid"
    /\ UNCHANGED <<img, th, sgrid, simg, net, entry, inp, x, xs, hidden, grid,
                   out, heap, err>>

\* grid = F.affine_grid(theta, x.size())
StnAffineGrid ==
    /\ pc = "affine_grid"
    /\ LET sh == AffineGridShape(theta.shape, GridSize) IN
       IF sh # <<>>
       THEN /\ grid' = [buf |-> Len(heap) + 1, shape |-> sh]
            /\ heap' = Append(heap, 0)
            /\ trace' = Append(trace, Stage("affine_grid", <<theta.buf>>,
                                            Len(heap) + 1, GridSize))
            /\ pc' = "grid_sample"
            /\ UNCHANGED <<img, th, sgrid, simg, net, entry, inp, x, xs,
                           hidden, theta, thetaVal, out, err>>
       ELSE Raise("affine_grid")

\* x = F.grid_sample(x, grid); return x
StnGridSample ==
    /\ pc = "grid_sample"
    /\ LET sh == GridSampleShape(SampleSource.shape, grid.shape) IN
       IF sh # <<>>
       THEN /\ x' = [buf |-> Len(heap) + 1, shape |-> sh]
            /\ heap' = Append(heap, 0)
            /\ trace' = Append(trace, Stage("grid_sample",
                                            <<SampleSource.buf, grid.buf>>,
                                            Len(heap) + 1, <<>>))
            /\ IF entry = "stn"
               THEN pc' = "done" /\ out' = x'
               ELSE pc' = "conv1" /\ out' = out
            /\ UNCHANGED <<img, th, sgrid, simg, net, entry, inp, xs, hidden,
                           theta, thetaVal, grid, err>>
       ELSE Raise("grid_sample")

\* a stage of forward that runs a Sequential on x and rebinds x
FwdStage(at, layers, operand, next) ==
    /\ pc = at
    /\ LET r == Sequential(layers, operand, heap) IN
       IF r.ok
       THEN /\ x' = r.t
            /\ heap' = r.heap
            /\ trace' = Append(trace, Stage(at, <<operand.buf>>, r.t.buf, <<>>))
            /\ pc' = next
            /\ UNCHANGED <<img, th, sgrid, simg, net, entry, inp, xs, hidden,
                           theta, thetaVal, grid, out, err>>
       ELSE Raise(at)

\* x = self.conv1(x)
FwdConv1 == FwdStage("conv1", Conv1(net), BackboneInput, "conv2")

\* x = self.conv2(x)
FwdConv2 == FwdStage("conv2", Conv2, x, "view_x")

\* x = x.view(-1, 2048)
FwdViewX ==
    /\ pc = "view_x"
    /\ LET sh == ViewShape(x, FlatFeatures) IN
       IF sh # <<>>
       THEN /\ x' = [buf |-> x.buf, shape |-> sh]
            /\ trace' = Append(trace, Stage("view_x", <<x.buf>>, x.buf, sh))
            /\ pc' = "fc1"
            /\ UNCHANGED <<img, th, sgrid, simg, net, entry, inp, xs, hidden,
                           theta, thetaVal, grid, out, heap, err>>
       ELSE Raise("view_x")

\* x = self.fc1(x)
FwdFc1 == FwdStage("fc1", Fc1, x, "fc_out")

\* x = self.fc_out(x)
FwdFcOut == FwdStage("fc_out", FcOut(net), x, "log_softmax")

\* return F.log_softmax(x, dim=1)
FwdLogSoftmax ==
    /\ pc = "log_softmax"
    /\ out' = [buf |-> Len(heap) + 1, shape |-> x.shape]
    /\ heap' = Append(heap, 0)
    /\ trace' = Append(trace, Stage("log_softmax", <<x.buf>>, Len(heap) + 1, <<>>))
    /\ pc' = "done"
    /\ UNCHANGED <<img, th, sgrid, simg, net, entry, inp, x, xs, hidden,
                   theta, thetaVal, grid, err>>

Next ==
    \/ Construct
    \/ Call
    \/ StnLocalization
    \/ StnViewXs
    \/ StnFcLoc
    \/ StnViewTheta
    \/ StnAffineGrid
    \/ StnGridSample
    \/ FwdConv1
    \/ FwdConv2
    \/ FwdViewX
    \/ FwdFc1
    \/ FwdFcOut
    \/ FwdLogSoftmax

Init ==
    /\ pc = "new"
    /\ net = NoNet
    /\ entry = ""
    /\ inp = NoTensor /\ x = NoTensor /\ xs = NoTensor
    /\ theta = NoTensor /\ grid = NoTensor /\ out = NoTensor
    /\ hidden = <<>> /\ thetaVal = <<>>
    /\ heap = <<>>
    /\ trace = <<>>
    /\ err = ""
    /\ img = <<>> /\ th = <<>> /\ sgrid = <<>> /\ simg = <<>>

Spec == Init /\ [][Next]_vars

(***************************************************************************)
(* Grid generator and bilinear sampler by value.  Coordinates and sampled  *)
(* values are exact rationals <<numerator, denominator>>, denominator > 0, *)
(* in lowest terms.  stn only calls F.affine_grid and F.grid_sample; what  *)
(* the two compute is taken from sections 4.1 and 4.2 of the design: the   *)
(* output grid is normalised so that the corner pixels sit at -1 and +1, a *)
(* normalised coordinate x maps to the pixel coordinate                    *)
(* (x + 1) / 2 * (W - 1), the four neighbouring pixels are blended         *)
(* bilinearly and a neighbour that is out of bounds contributes zero.      *)
(***************************************************************************)
MaxSide == 3            \* images of 1..MaxSide rows and columns
MaxChan == 2            \* 1..MaxChan channels
MaxImgSel == 2          \* image patterns 0..MaxImgSel
MaxShift == 3           \* translations of -MaxShift..MaxShift half units

Abs(a) == IF a < 0 THEN -a ELSE a

RECURSIVE Gcd(_, _)
Gcd(a, b) == IF b = 0 THEN a ELSE Gcd(b, a % b)

Norm(n, d) ==
    LET g == Gcd(Abs(n), d) IN <<n \div g, d \div g>>

R(k) == <<k, 1>>
RAdd(a, b) == Norm(a[1] * b[2] + b[1] * a[2], a[2] * b[2])
RSub(a, b) == Norm(a[1] * b[2] - b[1] * a[2], a[2] * b[2])
RMul(a, b) == Norm(a[1] * b[1], a[2] * b[2])
RHalf(a) == Norm(a[1], 2 * a[2])
RLt(a, b) == a[1] * b[2] < b[1] * a[2]
RLe(a, b) == a[1] * b[2] <= b[1] * a[2]
RFloor(a) == a[1] \div a[2]

\* torch.linspace(-1, 1, n)[k], k = 0..n-1; the single point is -1
Linspace(n, k) == IF n > 1 THEN Norm(2 * k - (n - 1), n - 1) ELSE R(-1)

\* F.affine_grid(theta, size) for one batch element, size = (., ., h, w):
\* grid[i][j] = theta . (x_j, y_i, 1)
AffineGrid(t, h, w) ==
    [i \in 1..h |-> [j \in 1..w |->
        LET xn == Linspace(w, j - 1)
            yn == Linspace(h, i - 1)
        IN << RAdd(RAdd(RMul(t[1][1], xn), RMul(t[1][2], yn)), t[1][3]),
              RAdd(RAdd(RMul(t[2][1], xn), RMul(t[2][2], yn)), t[2][3]) >> ]]

\* mutant of Unnormalize: the pixel-centre convention, ((x + 1) * n - 1) / 2
UnnormalizeHalfPixel(c, n) == RHalf(RSub(RMul(RAdd(c, R(1)), R(n)), R(1)))

\* the pixel coordinate of a normalised coordinate along an axis of n pixels
Unnormalize(c, n) == RMul(RHalf(RAdd(c, R(1))), R(n - 1))

\* a coordinate clipped into [0, n - 1] (padding_mode = 'border')
Clip(c, n) == IF RLt(c, R(0)) THEN R(0) ELSE IF RLt(R(n - 1), c) THEN R(n - 1) ELSE c

\* the pixel (row iy, column ix, counted from 0) of channel c of image im,
\* zero when the pixel is out of bounds
Fetch(im, c, iy, ix) ==
    IF iy >= 0 /\ iy < Len(im[c]) /\ ix >= 0 /\ ix < Len(im[c][1])
    THEN R(im[c][iy + 1][ix + 1]) ELSE R(0)

\* F.grid_sample(input, grid, mode='bilinear', padding_mode=padding) for one
\* batch element
GridSample(im, g, padding) ==
    LET hin == Len(im[1])
        win == Len(im[1][1])
    IN
    [c \in 1..Len(im) |-> [i \in 1..Len(g) |-> [j \in 1..Len(g[1]) |->
        LET ux == Unnormalize(g[i][j][1], win)
            uy == Unnormalize(g[i][j][2], hin)
            px == IF padding = "border" THEN Clip(ux, win) ELSE ux
            py == IF padding = "border" THEN Clip(uy, hin) ELSE uy
            x0 == RFloor(px)     \* left and upper neighbour; the right and
            y0 == RFloor(py)     \* lower ones are x0 + 1 and y0 + 1
            wx1 == RSub(px, R(x0))
            wx0 == RSub(R(1), wx1)
            wy1 == RSub(py, R(y0))
            wy0 == RSub(R(1), wy1)
        IN RAdd(RAdd(RMul(RMul(wx0, wy0), Fetch(im, c, y0, x0)),
                     RMul(RMul(wx1, wy0), Fetch(im, c, y0, x0 + 1))),
                RAdd(RMul(RMul(wx0, wy1), Fetch(im, c, y0 + 1, x0)),
                     RMul(RMul(wx1, wy1), Fetch(im, c, y0 + 1, x0 + 1)))) ]]]

\* mutant of StnGrid: height and width of the size exchanged
StnGridTransposed(t, im) == AffineGrid(t, Len(im[1][1]), Len(im[1]))

\* grid = F.affine_grid(theta, x.size()): the grid has the input's size
StnGrid(t, im) == AffineGrid(t, Len(im[1]), Len(im[1][1]))

\* mutant of StnSample: out-of-bounds positions clamped to the border
StnSampleBorder(im, g) == GridSample(im, g, "border")

\* x = F.grid_sample(x, grid): bilinear, zero padding (the defaults)
StnSample(im, g) == GridSample(im, g, "zeros")

\* the images and affine matrices the sampler is exercised on
Image(sel, ch, h, w) ==
    [c \in 1..ch |-> [i \in 1..h |-> [j \in 1..w |-> (sel * i + j + c + sel) % 3]]]

LinearParts ==
    { << <<R(1), R(0)>>, <<R(0), R(1)>> >>,       \* identity
      << <<R(-1), R(0)>>, <<R(0), R(1)>> >>,      \* horizontal flip
      << <<R(0), R(-1)>>, <<R(1), R(0)>> >>,      \* quarter turn
      << <<Norm(1, 2), R(0)>>, <<R(0), Norm(1, 2)>> >> }   \* zoom
Shifts == { Norm(k, 2) : k \in (-MaxShift)..MaxShift }

InitSTN ==
    /\ pc = "stn_grid"
    /\ net = NoNet
    /\ entry = ""
    /\ inp = NoTensor /\ x = NoTensor /\ xs = NoTensor
    /\ theta = NoTensor /\ grid = NoTensor /\ out = NoTensor
    /\ hidden = <<>> /\ thetaVal = <<>>
    /\ heap = <<>>
    /\ trace = <<>>
    /\ err = ""
    /\ \E sel \in 0..MaxImgSel, ch \in 1..MaxChan, h \in 1..MaxSide, w \in 1..MaxSide :
          img = Image(sel, ch, h, w)
    /\ \E l \in LinearParts, tx \in Shifts, ty \in Shifts :
          th = << <<l[1][1], l[1][2], tx>>, <<l[2][1], l[2][2], ty>> >>
    /\ sgrid = <<>>
    /\ simg = <<>>

\* grid = F.affine_grid(theta, x.size())
GenerateGrid ==
    /\ pc = "stn_grid"
    /\ sgrid' = StnGrid(th, img)
    /\ pc' = "stn_sample"
    /\ UNCHANGED <<net, entry, inp, x, xs, hidden, theta, thetaVal, grid, out,
                   heap, trace, err, img, th, simg>>

\* x = F.grid_sample(x, grid)
Sample ==
    /\ pc = "stn_sample"
    /\ simg' = StnSample(img, sgrid)
    /\ pc' = "stn_done"
    /\ UNCHANGED <<net, entry, inp, x, xs, hidden, theta, thetaVal, grid, out,
                   heap, trace, err, img, th, sgrid>>

NextSTN == GenerateGrid \/ Sample

SpecSTN == InitSTN /\ [][NextSTN]_vars

(***************************************************************************)
(* Properties.                                                             *)
(***************************************************************************)
Constructed == net # NoNet

IdentityTheta == << <<1, 0, 0>>, <<0, 1, 0>> >>

\* theta has been given its (rows, 2, 3) shape
ThetaViewed == Len(theta.shape) = 3

\* the net and the input of the notebook's forward-pass test, any batch size
IsTestNet ==
    /\ net.input_channels = N_CHANNELS
    /\ net.input_height = DIM_HEIGHT
    /\ net.input_width = DIM_WIDTH
    /\ net.num_classes = N_CLASSES
TestCall ==
    /\ Constructed /\ IsTestNet
    /\ entry = "forward"
    /\ Len(inp.shape) = 4
    /\ inp.shape = <<inp.shape[1], N_CHANNELS, DIM_HEIGHT, DIM_WIDTH>>

\* the input has the shape the net was constructed for
InputMatchesNet ==
    /\ Constructed
    /\ Len(inp.shape) = 4
    /\ inp.shape = <<inp.shape[1], net.input_channels, net.input_height,
                     net.input_width>>

ViewStages == {"view_xs", "view_theta", "view_x"}

\* C1: once the Net is constructed, for every choice of constructor
\* arguments, fc_loc[2] has a 6x32 weight matrix that is zero everywhere and
\* the bias [1,0,0,0,1,0].
C1_ZeroWeightIdentityBias ==
    Constructed =>
        /\ Len(net.fc_loc2_weight) = 6
        /\ \A r \in 1..6 :
              /\ Len(net.fc_loc2_weight[r]) = 32
              /\ \A c \in 1..32 : net.fc_loc2_weight[r][c] = 0
        /\ net.fc_loc2_bias = <<1, 0, 0, 0, 1, 0>>

C1_Witness ==
    /\ pc = "idle"
    /\ net.input_channels = 1
    /\ net.input_height = 30
    /\ net.input_width = 64

\* C2: whatever the activations that reach fc_loc[2], the theta computed in
\* stn is the identity matrix [[1,0,0],[0,1,0]] for every row of the batch.
C2_ThetaIsIdentity ==
    ThetaViewed =>
        /\ Len(thetaVal) = theta.shape[1]
        /\ \A n \in 1..Len(thetaVal) : thetaVal[n] = IdentityTheta

C2_Witness ==
    /\ ThetaViewed
    /\ Len(thetaVal) >= 2
    /\ \E j \in 1..LocHidden : hidden[1][j] # 0 /\ hidden[2][j] # hidden[1][j]

\* C3: forward of Net(3,32,32,10) on a batch of N images of 3x32x32 raises
\* nothing, both flatten steps keep N rows, and the result has shape (N,10).
C3_ForwardShape ==
    TestCall =>
        /\ pc # "error"
        /\ \A k \in 1..Len(trace) :
              trace[k].stage \in ViewStages => trace[k].size[1] = inp.shape[1]
        /\ pc = "done" => out.shape = <<inp.shape[1], 10>>

C3_Witness ==
    /\ TestCall
    /\ pc = "done"
    /\ inp.shape[1] = TestBatch
    /\ out.shape = <<5, 10>>

\* C6: a shape inconsistency is only ever reported by the grid generator or
\* the sampler, and no view of stn or forward has silently produced a
\* leading dimension other than the batch size.
C6_FailFastNoSilentReshape ==
    /\ pc = "error" => err \in {"affine_grid", "grid_sample"}
    /\ \A k \in 1..Len(trace) :
          trace[k].stage \in ViewStages => trace[k].size[1] = inp.shape[1]

\* C8: for an input of the shape the Net was constructed for, the
\* localization output has in_features elements per sample, so that the view
\* of xs does not raise and theta gets the shape (N,2,3).
C8_ThetaBatchIsN ==
    InputMatchesNet =>
        /\ pc = "view_xs" => Numel(xs) = inp.shape[1] * InFeatures(net)
        /\ err # "view_xs"
        /\ ThetaViewed => theta.shape = <<inp.shape[1], 2, 3>>

StageOrder ==
    << "localization", "view_xs", "fc_loc", "view_theta", "affine_grid",
       "grid_sample", "conv1", "conv2", "view_x", "fc1", "fc_out",
       "log_softmax" >>

\* C9: the stages of a forward pass run in the order localization,
\* regressor, grid generator, sampler, backbone, log-softmax; the grid is
\* generated for the original input's size, the sampler reads the original
\* input and that grid, and the backbone reads the sampler's result and
\* never the original input.
C9_StageOrderAndOperands ==
    /\ Len(trace) <= Len(StageOrder)
    /\ \A k \in 1..Len(trace) :
          /\ trace[k].stage = StageOrder[k]
          /\ k > 1 => trace[k].args[1] = trace[k - 1].out
                      \/ trace[k].stage = "grid_sample"
          /\ trace[k].stage = "affine_grid" => trace[k].size = inp.shape
          /\ trace[k].stage = "grid_sample" =>
                trace[k].args = <<inp.buf, trace[k - 1].out>>
          /\ k > 6 => inp.buf \notin {trace[k].args[a] : a \in 1..Len(trace[k].args)}
    /\ (pc = "done" /\ entry = "forward") => Len(trace) = Len(StageOrder)

C9_Witness ==
    /\ pc = "done"
    /\ entry = "forward"
    /\ Len(trace) = 12
    /\ trace[7].stage = "conv1"
    /\ trace[7].args = <<trace[6].out>>

InCall == pc \notin {"new", "idle", "done", "error"}

\* C10: no step of stn or forward changes the parameters of the net, the
\* caller's input tensor or the contents of the input's buffer: in-place
\* layers write only buffers allocated during the call.
C10_InputAndParamsUntouched ==
    [][InCall => /\ net' = net
                 /\ inp' = inp
                 /\ heap'[inp.buf] = heap[inp.buf]]_vars

C10_Witness ==
    /\ pc = "done"
    /\ entry = "forward"
    /\ heap[inp.buf] = 0
    /\ Cardinality({b \in 1..Len(heap) : heap[b] > 0}) = 6

(***************************************************************************)
(* Properties of the grid generator and sampler (SpecSTN).                 *)
(***************************************************************************)
RIdentityTheta == << <<R(1), R(0), R(0)>>, <<R(0), R(1), R(0)>> >>

PureTranslation ==
    /\ th # <<>>
    /\ th[1][1] = R(1) /\ th[1][2] = R(0)
    /\ th[2][1] = R(0) /\ th[2][2] = R(1)

ImgH == Len(img[1])
ImgW == Len(img[1][1])

\* the normalised coordinate lies outside [-1, 1]
OutsideUnit(c) == RLt(c, R(-1)) \/ RLt(R(1), c)

\* the pixel coordinate lies a whole pixel or more outside 0..n-1
WholePixelOutside(c, n) ==
    RLe(Unnormalize(c, n), R(-1)) \/ RLe(R(n), Unnormalize(c, n))

\* C4: with the identity theta and the output size equal to the input size,
\* the sampled image equals the input image at every channel and pixel.
C4_IdentityReproducesInput ==
    (pc = "stn_done" /\ th = RIdentityTheta) =>
        /\ Len(simg) = Len(img)
        /\ \A c \in 1..Len(img) :
              /\ Len(simg[c]) = ImgH
              /\ \A i \in 1..ImgH :
                    /\ Len(simg[c][i]) = ImgW
                    /\ \A j \in 1..ImgW : simg[c][i][j] = R(img[c][i][j])

C4_Witness ==
    /\ pc = "stn_done"
    /\ th = RIdentityTheta
    /\ Len(img) = 2 /\ ImgH = 3 /\ ImgW = 2
    /\ simg[2][3][1] = R(2)
    /\ simg[1][1][2] = R(1)

\* C5 as stated: under a pure translation, every output pixel whose grid
\* coordinate is outside [-1,1] in x or y is sampled as zero.
C5_OutsideUnitIsZero ==
    (pc = "stn_done" /\ PureTranslation) =>
        \A c \in 1..Len(img), i \in 1..ImgH, j \in 1..ImgW :
            (OutsideUnit(sgrid[i][j][1]) \/ OutsideUnit(sgrid[i][j][2]))
                => simg[c][i][j] = R(0)

\* C5 amended: under a pure translation, every output pixel whose sampling
\* position lies a whole pixel or more outside the image is sampled as zero.
C5_WholePixelOutsideIsZero ==
    (pc = "stn_done" /\ PureTranslation) =>
        \A c \in 1..Len(img), i \in 1..ImgH, j \in 1..ImgW :
            (WholePixelOutside(sgrid[i][j][1], ImgW)
             \/ WholePixelOutside(sgrid[i][j][2], ImgH))
                => simg[c][i][j] = R(0)

C5_Witness ==
    /\ pc = "stn_done"
    /\ PureTranslation
    /\ ImgW = 3 /\ ImgH = 2
    /\ th[1][3] = R(1) /\ th[2][3] = R(0)
    /\ img[1][1][3] # 0
    /\ WholePixelOutside(sgrid[1][3][1], ImgW)
    /\ simg[1][1][3] = R(0)
    /\ simg[1][1][2] = R(img[1][1][3])

====
